---- MODULE Spec2Model ----
(***************************************************************************)
(* A model of gmail-ai (src/main.py): one run of the triage script.  The   *)
(* script lists the message ids of a query page by page, and for each id  *)
(* fetches the message, classifies its snippet, composes a reply for the  *)
(* supported categories and stores the reply as a draft.                   *)
(*                                                                         *)
(* The mail store and the language model are external: every call to them *)
(* is one step whose outcome (a result, or an exception) is chosen         *)
(* nondeterministically.  Python values are modelled as follows:           *)
(*   - Optional[T] is a sequence of length 0 (None) or 1;                  *)
(*   - a dict is the sequence of its values in insertion order;            *)
(*   - a sender header is a sequence of one-character strings, so that the *)
(*     regular expression of create_draft_email is matched character by    *)
(*     character; other texts are strings;                                 *)
(*   - a float price is kept in cents, a datetime as <<year, month, day>>. *)
(* A Python function that may raise returns a record with a field raised.  *)
(***************************************************************************)
EXTENDS Integers, Sequences, FiniteSets, TLC

VARIABLES
    db,            \* the MockDatabase instance: [products, orders]
    mailbox,       \* the mail store: the messages matching the query, in listing order
    drafts,        \* the mail store: the drafts created so far
    pc,            \* position of the script
    cursor,        \* mail store: how many ids the listing has handed out (the page token)
    page_count,    \* how many list requests were made
    list_error,    \* whether list_messages went through its except branch
    messages,      \* list_messages' accumulator, then the batch of the main loop
    idx,           \* 1-based position of the for loop in messages
    content,       \* Optional: what get_message_content returned for the current message
    mail_category, \* Optional: the category classify_email returned for the current message
    response,      \* Optional: the text generate_response returned for the current message
    outcome,       \* per message id: what the run reported for it
    category_of,   \* per message id: Optional category the classifier returned
    returned,      \* per message id: Optional text the composer returned
    calls,         \* per message id: number of get / classify / compose / draft calls
    draft_msg,     \* per draft of the mail store: the id of the message it answers
    ctx_call       \* Optional: [category, result] of the last direct _get_context call

vars ==
    <<db, mailbox, drafts, pc, cursor, page_count, list_error, messages, idx, content,
      mail_category, response, outcome, category_of, returned, calls, draft_msg, ctx_call>>

(***************************************************************************)
(* Bounds of the model.                                                    *)
(***************************************************************************)
\* Number of messages of the sample mailbox.
MaxBatch ==
    3

\* Number of list requests one listing may take.
MaxPages ==
    3

\* Length of the sender headers enumerated character by character.
MaxHdrLen ==
    3

(***************************************************************************)
(* Small helpers for Python values.                                        *)
(***************************************************************************)
None ==
    <<>>

Some(v) ==
    <<v>>

Range(s) ==
    {s[i] : i \in 1..Len(s)}

\* dict.get(key): the value stored under the key, or None.
DictGet(d, key) ==
    IF \E i \in 1..Len(d) : d[i].id = key
    THEN Some(d[CHOOSE i \in 1..Len(d) : d[i].id = key].rec)
    ELSE None

\* dict.pop(key, None): the value and the dict without the key.
DictWithout(d, key) ==
    SelectSeq(d, LAMBDA e : e.id # key)

(***************************************************************************)
(* MockDatabase                                                            *)
(***************************************************************************)
Product(id, name, price, stock, category) ==
    [id |-> id, name |-> name, price |-> price, stock |-> stock, category |-> category]

Order(id, customer_email, status, items, order_date, tracking_number) ==
    [id |-> id, customer_email |-> customer_email, status |-> status, items |-> items,
     order_date |-> order_date, tracking_number |-> tracking_number]

Entry(rec) ==
    [id |-> rec.id, rec |-> rec]

MockDatabase_init ==
    [products |-> <<
        Entry(Product("NIKE001", "Nike Air Zoom Pro", 12999, 15, "running_shoes")),
        Entry(Product("ADIDAS001", "Adidas Champions League Ball 2024", 14999, 0, "football")),
        Entry(Product("YOGA001", "Premium Yoga Mat", 4999, 23, "yoga"))>>,
     orders |-> <<
        Entry(Order("ORD54321", "margaret.brown@email.com", "processing", <<"YOGA001">>,
                    <<2024, 12, 28>>, None)),
        Entry(Order("ORD54322", "anna.smith@email.com", "shipped", <<"NIKE001">>,
                    <<2024, 12, 20>>, Some("TRK123456789")))>>]

\* A method of MockDatabase returns its result and the database it leaves behind.
check_stock(d, product_id) ==
    [ret |-> DictGet(d.products, product_id), db |-> d]

\* Fault variant: the order is popped from the dict instead of read.
get_order_status_pop(d, order_id) ==
    [ret |-> DictGet(d.orders, order_id),
     db |-> [d EXCEPT !.orders = DictWithout(d.orders, order_id)]]

get_order_status(d, order_id) ==
    [ret |-> DictGet(d.orders, order_id), db |-> d]

search_orders_by_email(d, email) ==
    [ret |-> LET hits == SelectSeq(d.orders, LAMBDA e : e.rec.customer_email = email)
             IN  [i \in 1..Len(hits) |-> hits[i].rec],
     db |-> d]

(***************************************************************************)
(* EmailResponseGenerator._get_context                                     *)
(***************************************************************************)
NoContext ==
    "No additional context available"

\* Python's `x or default` on an Optional[str]: None and the empty string are falsy.
StrOr(opt, default) ==
    IF opt = None \/ opt = Some("") THEN default ELSE opt[1]

\* Fault variant: the tracking number is printed without its default text.
_get_context_no_default(d, category) ==
    IF category = "order_status"
    THEN LET r == get_order_status(d, "ORD54321")
         IN  [ret |-> IF r.ret # None
                      THEN "Order ORD54321 is " \o r.ret[1].status \o ". Tracking number: "
                           \o (IF r.ret[1].tracking_number = None THEN "None"
                               ELSE r.ret[1].tracking_number[1])
                      ELSE NoContext,
              db |-> r.db]
    ELSE IF category = "stock_inquiry"
    THEN LET r == check_stock(d, "ADIDAS001")
         IN  [ret |-> IF r.ret # None
                      THEN "Product " \o r.ret[1].name \o " stock level: "
                           \o ToString(r.ret[1].stock)
                      ELSE NoContext,
              db |-> r.db]
    ELSE [ret |-> NoContext, db |-> d]

_get_context(d, category) ==
    IF category = "order_status"
    THEN LET r == get_order_status(d, "ORD54321")
         IN  [ret |-> IF r.ret # None
                      THEN "Order ORD54321 is " \o r.ret[1].status \o ". Tracking number: "
                           \o StrOr(r.ret[1].tracking_number, "Not yet available")
                      ELSE NoContext,
              db |-> r.db]
    ELSE IF category = "stock_inquiry"
    THEN LET r == check_stock(d, "ADIDAS001")
         IN  [ret |-> IF r.ret # None
                      THEN "Product " \o r.ret[1].name \o " stock level: "
                           \o ToString(r.ret[1].stock)
                      ELSE NoContext,
              db |-> r.db]
    ELSE [ret |-> NoContext, db |-> d]

(***************************************************************************)
(* create_draft_email: the address pattern (src/main.py line 226): an      *)
(* optional quote, group 1 of non-quote characters, an optional quote,     *)
(* whitespace, and group 2 of one or more characters in angle brackets.    *)
(***************************************************************************)
Quote ==
    "\""

IsSpace(ch) ==
    ch = " "

At(h, i) ==
    IF i >= 1 /\ i <= Len(h) THEN h[i] ELSE ""

\* Group 1 as the characters a..b-1: none of them is a quote.
NoQuote(h, a, b) ==
    \A i \in a..(b - 1) : h[i] # Quote

\* The whitespace as the characters c..p-1.
Spaces(h, c, p) ==
    \A i \in c..(p - 1) : IsSpace(h[i])

\* Group 2 in its angle brackets can be matched at position p: an opening
\* bracket, at least one character, and a closing bracket somewhere after it.
ValidOpen(h, p) ==
    /\ At(h, p) = "<"
    /\ \E g \in (p + 2)..Len(h) : h[g] = ">"

\* Group 2 is not greedy: it ends before the first closing bracket that leaves it
\* a character.
GroupEnd(h, p) ==
    CHOOSE g \in (p + 2)..Len(h) :
        /\ h[g] = ">"
        /\ \A k \in (p + 2)..(g - 1) : h[k] # ">"

\* From position b, the optional closing quote and the whitespace lead to the
\* opening bracket at p.
TailFrom(h, b, p) ==
    /\ ValidOpen(h, p)
    /\ \/ At(h, b) = Quote /\ b < p /\ Spaces(h, b + 1, p)
       \/ Spaces(h, b, p)

TailOk(h, b) ==
    \E p \in b..Len(h) : TailFrom(h, b, p)

TailOpen(h, b) ==
    CHOOSE p \in b..Len(h) : TailFrom(h, b, p)

\* Group 1 can start at a and the rest of the pattern be matched after it.
HasGroupOne(h, a) ==
    \E b \in a..(Len(h) + 1) : NoQuote(h, a, b) /\ TailOk(h, b)

\* Group 1 is greedy: of the ends that let the rest match, the last one.
GroupOneEnd(h, a) ==
    CHOOSE b \in a..(Len(h) + 1) :
        /\ NoQuote(h, a, b)
        /\ TailOk(h, b)
        /\ \A y \in (b + 1)..(Len(h) + 1) : ~(NoQuote(h, a, y) /\ TailOk(h, y))

\* The pattern can be matched from position s, with or without the opening quote.
HasMatchAt(h, s) ==
    \/ HasGroupOne(h, s)
    \/ At(h, s) = Quote /\ HasGroupOne(h, s + 1)

\* The optional opening quote is consumed first, and left out only when the rest
\* does not match with it.
GroupOneStart(h, s) ==
    IF At(h, s) = Quote /\ HasGroupOne(h, s + 1) THEN s + 1 ELSE s

\* re.search finds a match.
Found(h) ==
    \E s \in 1..(Len(h) + 1) : HasMatchAt(h, s)

\* re.search returns the match at the leftmost position that has one.
MatchStart(h) ==
    CHOOSE s \in 1..(Len(h) + 1) :
        /\ HasMatchAt(h, s)
        /\ \A u \in 1..(s - 1) : ~HasMatchAt(h, u)

\* match.group(1)
Group1(h) ==
    SubSeq(h, GroupOneStart(h, MatchStart(h)),
           GroupOneEnd(h, GroupOneStart(h, MatchStart(h))) - 1)

\* The opening bracket of the match.
OpenOf(h) ==
    TailOpen(h, GroupOneEnd(h, GroupOneStart(h, MatchStart(h))))

\* match.group(2)
Group2(h) ==
    SubSeq(h, OpenOf(h) + 1, GroupEnd(h, OpenOf(h)) - 1)

\* str.strip()
Strip(h) ==
    LET keep == {i \in 1..Len(h) : ~IsSpace(h[i])}
    IN  IF keep = {}
        THEN <<>>
        ELSE SubSeq(h, CHOOSE i \in keep : \A k \in keep : i <= k,
                       CHOOSE i \in keep : \A k \in keep : i >= k)

\* Fault variant: the display name, group 1, is taken for the address.
clean_email_group1(to) ==
    IF Found(to) THEN Group1(to) ELSE Strip(to)

clean_email(to) ==
    IF Found(to) THEN Group2(to) ELSE Strip(to)

(***************************************************************************)
(* The mail store's messages.                                              *)
(***************************************************************************)
Header(name, value) ==
    [name |-> name, value |-> value]

Message(id, headers, snippet) ==
    [id |-> id, headers |-> headers, snippet |-> snippet]

AnnaAddress ==
    <<"a", "n", "n", "a", ".", "s", "m", "i", "t", "h", "@",
      "e", "m", "a", "i", "l", ".", "c", "o", "m">>

AnnaHeader ==
    <<Quote, "A", "n", "n", "a", " ", "S", "m", "i", "t", "h", Quote, " ", "<">>
        \o AnnaAddress \o <<">">>

BareHeader ==
    <<" ">> \o AnnaAddress \o <<" ", " ">>

\* The messages of the sample mailbox: a display-name sender, a message without
\* From header, a bare address, a message without Subject header, in turn.
SampleMessage(i) ==
    CASE (i - 1) % 4 = 0 ->
            Message(i, <<Header("To", "shop"), Header("Subject", "Where is my order?"),
                         Header("From", AnnaHeader)>>,
                    <<"Where is my order ORD54321?">>)
      [] (i - 1) % 4 = 1 ->
            Message(i, <<Header("Subject", "No sender")>>, <<"Hello">>)
      [] (i - 1) % 4 = 2 ->
            Message(i, <<Header("From", BareHeader), Header("Subject", "Ball in stock?"),
                         Header("Subject", "second")>>,
                    <<"Ball ", "&amp;", " mat in stock?">>)
      [] OTHER ->
            Message(i, <<Header("From", AnnaHeader)>>, <<"Hello">>)

SampleMailbox ==
    [i \in 1..MaxBatch |-> SampleMessage(i)]

Alphabet ==
    {"a", " ", "<", ">", Quote}

\* Every sender header of at most MaxHdrLen characters of the alphabet.
Headers ==
    UNION {[1..n -> Alphabet] : n \in 0..MaxHdrLen}

HeaderMailbox(h) ==
    <<Message(1, <<Header("Subject", "Hello"), Header("From", h)>>, <<"Hi">>)>>

Mailboxes ==
    {SampleMailbox} \cup {HeaderMailbox(h) : h \in Headers}

MessageIds ==
    1..MaxBatch

(***************************************************************************)
(* list_messages                                                           *)
(***************************************************************************)
\* Fault variant: the except branch returns the ids accumulated so far.
list_messages_partial(acc) ==
    acc

\* The except branch of list_messages (lines 66-68): the ids accumulated so far are
\* dropped.
list_messages_except(acc) ==
    <<>>

\* The ids the mail store hands out after the first n, k of them.
PageIds(mbox, n, k) ==
    [i \in 1..k |-> mbox[n + i].id]

(***************************************************************************)
(* get_message_content                                                     *)
(***************************************************************************)
\* next(h['value'] for h in headers if h['name'] == name); None for StopIteration.
HeaderValue(headers, name) ==
    LET hits == {i \in 1..Len(headers) : headers[i].name = name}
    IN  IF hits = {} THEN None
        ELSE Some(headers[CHOOSE i \in hits : \A k \in hits : i <= k].value)

\* html.unescape on a snippet given as a sequence of tokens: a token is a character
\* reference or plain text.
html_unescape(snippet) ==
    [i \in 1..Len(snippet) |->
        CASE snippet[i] = "&amp;" -> "&"
          [] snippet[i] = "&lt;" -> "<"
          [] snippet[i] = "&gt;" -> ">"
          [] snippet[i] = "&quot;" -> Quote
          [] snippet[i] = "&#39;" -> "'"
          [] OTHER -> snippet[i]]

MessageFound(mbox, message_id) ==
    \E i \in 1..Len(mbox) : mbox[i].id = message_id

MessageById(mbox, message_id) ==
    mbox[CHOOSE i \in 1..Len(mbox) : mbox[i].id = message_id]

\* Whether the body of get_message_content runs to its return statement.
GetSucceeds(mbox, message_id, api_ok) ==
    /\ api_ok
    /\ MessageFound(mbox, message_id)
    /\ HeaderValue(MessageById(mbox, message_id).headers, "Subject") # None
    /\ HeaderValue(MessageById(mbox, message_id).headers, "From") # None

MessageContent(mbox, message_id) ==
    LET message == MessageById(mbox, message_id)
    IN  [id |-> message.id,
         subject |-> HeaderValue(message.headers, "Subject")[1],
         sender |-> HeaderValue(message.headers, "From")[1],
         snippet |-> html_unescape(message.snippet)]

\* Fault variant: without the try/except, the exception leaves the function.
get_message_content_uncaught(mbox, message_id, api_ok) ==
    IF GetSucceeds(mbox, message_id, api_ok)
    THEN [ret |-> Some(MessageContent(mbox, message_id)), raised |-> FALSE]
    ELSE [ret |-> None, raised |-> TRUE]

\* Lines 71-91: every exception is caught and None returned.
get_message_content(mbox, message_id, api_ok) ==
    IF GetSucceeds(mbox, message_id, api_ok)
    THEN [ret |-> Some(MessageContent(mbox, message_id)), raised |-> FALSE]
    ELSE [ret |-> None, raised |-> FALSE]

(***************************************************************************)
(* classify_email                                                          *)
(***************************************************************************)
MailCategory ==
    {"order_status", "product_return", "stock_inquiry", "other", "product_complaint"}

\* What the language model may answer: a label of the schema, or one outside it.
RawLabels ==
    MailCategory \cup {"spam"}

\* with_structured_output validates the answer against MailCategory; the call
\* raises when the backend fails or the answer is not of the schema.
classify_email(email_content, llm_ok, raw) ==
    IF llm_ok /\ raw \in MailCategory
    THEN [ret |-> Some(raw), raised |-> FALSE]
    ELSE [ret |-> None, raised |-> TRUE]

(***************************************************************************)
(* EmailResponseGenerator.generate_response                                *)
(***************************************************************************)
\* The content of the model's answer: a string, or a list of content blocks.
LlmContents ==
    {[kind |-> "str", text |-> "Thank you for your message."],
     [kind |-> "list", text |-> "Thank you"]}

\* str(response.content)
PyStr(c) ==
    IF c.kind = "str" THEN c.text ELSE "['" \o c.text \o "']"

generate_response(d, category, email_content, llm_ok, llm_content) ==
    LET context == _get_context(d, category)
        prompt == [subject |-> email_content.subject,
                   snippet |-> email_content.snippet,
                   context |-> context.ret]
    IN  IF llm_ok
        THEN [ret |-> Some(PyStr(llm_content)), raised |-> FALSE, db |-> context.db,
              prompt |-> prompt]
        ELSE [ret |-> None, raised |-> TRUE, db |-> context.db, prompt |-> prompt]

(***************************************************************************)
(* create_draft_email                                                      *)
(***************************************************************************)
\* The MIME message the draft is made of.  The mail store keeps it base64-encoded;
\* the model keeps its fields.
MIMEText(to, subject, message_body) ==
    [to |-> to, subject |-> subject, from |-> "me", body |-> message_body]

\* Fault variant: without the try/except, the exception leaves the function.
create_draft_email_uncaught(store, to, subject, message_body, api_ok) ==
    LET message == MIMEText(clean_email(to), subject, message_body)
    IN  IF api_ok
        THEN [ret |-> Some(message), drafts |-> Append(store, message), raised |-> FALSE]
        ELSE [ret |-> None, drafts |-> store, raised |-> TRUE]

\* Lines 224-256: every exception is caught and None returned.
create_draft_email(store, to, subject, message_body, api_ok) ==
    LET message == MIMEText(clean_email(to), subject, message_body)
    IN  IF api_ok
        THEN [ret |-> Some(message), drafts |-> Append(store, message), raised |-> FALSE]
        ELSE [ret |-> None, drafts |-> store, raised |-> FALSE]

(***************************************************************************)
(* The script (src/main.py lines 259-298)                                  *)
(***************************************************************************)
NoCalls ==
    [get |-> 0, classify |-> 0, compose |-> 0, draft |-> 0]

\* The state after lines 260-263: the database and the generator are built and the
\* mail service is open; nothing was listed yet.
InitWith(d, mbox) ==
    /\ db = d
    /\ mailbox = mbox
    /\ drafts = <<>>
    /\ draft_msg = <<>>
    /\ pc = "list_first"
    /\ cursor = 0
    /\ page_count = 0
    /\ list_error = FALSE
    /\ messages = <<>>
    /\ idx = 1
    /\ content = None
    /\ mail_category = None
    /\ response = None
    /\ outcome = [m \in MessageIds |-> "pending"]
    /\ category_of = [m \in MessageIds |-> None]
    /\ returned = [m \in MessageIds |-> None]
    /\ calls = [m \in MessageIds |-> NoCalls]
    /\ ctx_call = None

Init ==
    \E mbox \in Mailboxes : InitWith(MockDatabase_init, mbox)

\* What the main loop and the generator do not touch while list_messages runs.
LoopUnchanged ==
    UNCHANGED <<db, mailbox, drafts, draft_msg, idx, content, mail_category, response,
                outcome, category_of, returned, calls, ctx_call>>

\* list_messages, lines 50-56 (and 65-68): the first list request.
ListFirst ==
    /\ pc = "list_first"
    /\ page_count' = 1
    /\ \E api_ok \in BOOLEAN, has_messages \in BOOLEAN, has_next \in BOOLEAN,
          k \in 0..Len(mailbox) :
        /\ has_messages \/ k = 0
        /\ has_next => page_count' < MaxPages
        /\ IF api_ok
           THEN /\ messages' = (IF has_messages THEN PageIds(mailbox, 0, k) ELSE <<>>)
                /\ cursor' = k
                /\ list_error' = FALSE
                /\ pc' = (IF has_next THEN "list_page" ELSE "loop")
           ELSE /\ messages' = list_messages_except(<<>>)
                /\ cursor' = cursor
                /\ list_error' = TRUE
                /\ pc' = "loop"
    /\ LoopUnchanged

\* list_messages, lines 58-63 (and 65-68): one more page.  A page without the
\* messages key raises KeyError at line 63.
ListNextPage ==
    /\ pc = "list_page"
    /\ page_count' = page_count + 1
    /\ \E api_ok \in BOOLEAN, has_messages \in BOOLEAN, has_next \in BOOLEAN,
          k \in 0..(Len(mailbox) - cursor) :
        /\ has_messages \/ k = 0
        /\ has_next => page_count' < MaxPages
        /\ IF api_ok /\ has_messages
           THEN /\ messages' = messages \o PageIds(mailbox, cursor, k)
                /\ cursor' = cursor + k
                /\ list_error' = FALSE
                /\ pc' = (IF has_next THEN "list_page" ELSE "loop")
           ELSE /\ messages' = list_messages_except(messages)
                /\ cursor' = cursor
                /\ list_error' = TRUE
                /\ pc' = "loop"
    /\ LoopUnchanged

ListUnchanged ==
    UNCHANGED <<mailbox, cursor, page_count, list_error, messages, ctx_call>>

\* Lines 267-273: the next message of the batch is fetched.
Fetch ==
    /\ pc = "loop"
    /\ idx <= Len(messages)
    /\ \E api_ok \in BOOLEAN :
        LET id == messages[idx]
            r == get_message_content(mailbox, id, api_ok)
        IN  /\ calls' = [calls EXCEPT ![id].get = @ + 1]
            /\ IF r.raised
               THEN /\ pc' = "aborted"
                    /\ outcome' = [outcome EXCEPT ![id] = "get_raised"]
                    /\ UNCHANGED <<content, idx>>
               ELSE /\ content' = r.ret
                    /\ IF r.ret = None
                       THEN /\ outcome' = [outcome EXCEPT ![id] = "fetch_failed"]
                            /\ idx' = idx + 1
                            /\ pc' = "loop"
                       ELSE /\ pc' = "classify"
                            /\ UNCHANGED <<outcome, idx>>
    /\ UNCHANGED <<db, drafts, draft_msg, mail_category, response, category_of, returned>>
    /\ ListUnchanged

\* Line 267: the batch is exhausted and the script ends.
LoopExit ==
    /\ pc = "loop"
    /\ idx > Len(messages)
    /\ pc' = "done"
    /\ UNCHANGED <<db, drafts, draft_msg, idx, content, mail_category, response, outcome,
                   category_of, returned, calls>>
    /\ ListUnchanged

\* Fault variants: no category is skipped; complaints are skipped too.
skips_nothing(category) ==
    FALSE

skips_complaints(category) ==
    category \in {"other", "product_complaint"}

\* Line 280: the categories no reply is written for.
IsUnsupported(category) ==
    category \in {"other"}

\* Lines 277-282: the snippet is classified; an unsupported category ends the
\* message.  An exception of classify_email is caught nowhere.
Classify ==
    /\ pc = "classify"
    /\ \E llm_ok \in BOOLEAN, raw \in RawLabels :
        LET id == messages[idx]
            r == classify_email(content[1].snippet, llm_ok, raw)
        IN  /\ calls' = [calls EXCEPT ![id].classify = @ + 1]
            /\ IF r.raised
               THEN /\ pc' = "aborted"
                    /\ outcome' = [outcome EXCEPT ![id] = "classify_raised"]
                    /\ UNCHANGED <<mail_category, category_of, idx>>
               ELSE /\ mail_category' = r.ret
                    /\ category_of' = [category_of EXCEPT ![id] = r.ret]
                    /\ IF IsUnsupported(r.ret[1])
                       THEN /\ outcome' = [outcome EXCEPT ![id] = "skipped"]
                            /\ idx' = idx + 1
                            /\ pc' = "loop"
                       ELSE /\ pc' = "compose"
                            /\ UNCHANGED <<outcome, idx>>
    /\ UNCHANGED <<db, drafts, draft_msg, content, response, returned>>
    /\ ListUnchanged

\* Lines 284-287: the reply is composed.  An exception of generate_response is
\* caught nowhere.
Compose ==
    /\ pc = "compose"
    /\ \E llm_ok \in BOOLEAN, llm_content \in LlmContents :
        LET id == messages[idx]
            r == generate_response(db, mail_category[1], content[1], llm_ok, llm_content)
        IN  /\ calls' = [calls EXCEPT ![id].compose = @ + 1]
            /\ db' = r.db
            /\ IF r.raised
               THEN /\ pc' = "aborted"
                    /\ outcome' = [outcome EXCEPT ![id] = "compose_raised"]
                    /\ UNCHANGED <<response, returned>>
               ELSE /\ response' = r.ret
                    /\ returned' = [returned EXCEPT ![id] = r.ret]
                    /\ pc' = "draft"
                    /\ UNCHANGED outcome
    /\ UNCHANGED <<drafts, draft_msg, idx, content, mail_category, category_of>>
    /\ ListUnchanged

\* Lines 289-298: the reply is stored as a draft.
Draft ==
    /\ pc = "draft"
    /\ \E api_ok \in BOOLEAN :
        LET id == messages[idx]
            r == create_draft_email(drafts, content[1].sender,
                                    "Re: " \o content[1].subject, response[1], api_ok)
        IN  /\ calls' = [calls EXCEPT ![id].draft = @ + 1]
            /\ drafts' = r.drafts
            /\ draft_msg' = (IF Len(r.drafts) > Len(drafts) THEN Append(draft_msg, id)
                             ELSE draft_msg)
            /\ IF r.raised
               THEN /\ pc' = "aborted"
                    /\ outcome' = [outcome EXCEPT ![id] = "draft_raised"]
                    /\ UNCHANGED idx
               ELSE /\ outcome' = [outcome EXCEPT
                                      ![id] = IF r.ret # None THEN "drafted"
                                              ELSE "draft_failed"]
                    /\ idx' = idx + 1
                    /\ pc' = "loop"
    /\ UNCHANGED <<db, content, mail_category, response, category_of, returned>>
    /\ ListUnchanged

Next ==
    \/ ListFirst
    \/ ListNextPage
    \/ Fetch
    \/ LoopExit
    \/ Classify
    \/ Compose
    \/ Draft

Spec ==
    Init /\ [][Next]_vars

(***************************************************************************)
(* _get_context called directly, on any catalog                            *)
(***************************************************************************)
OrderVariants ==
    {None} \cup
    {Some(Order("ORD54321", "margaret.brown@email.com", st, <<"YOGA001">>,
                <<2024, 12, 28>>, tr)) :
        st \in {"processing", "shipped"}, tr \in {None, Some(""), Some("TRK123456789")}}

ProductVariants ==
    {None} \cup
    {Some(Product("ADIDAS001", nm, 14999, st, "football")) :
        nm \in {"Adidas Champions League Ball 2024", ""}, st \in {0, 7}}

\* The built-in catalog with its ORD54321 and ADIDAS001 entries replaced or removed.
Catalog(o, p) ==
    [products |-> <<MockDatabase_init.products[1]>>
                    \o (IF p = None THEN <<>> ELSE <<Entry(p[1])>>)
                    \o <<MockDatabase_init.products[3]>>,
     orders |-> (IF o = None THEN <<>> ELSE <<Entry(o[1])>>)
                    \o <<MockDatabase_init.orders[2]>>]

Catalogs ==
    {Catalog(o, p) : o \in OrderVariants, p \in ProductVariants}

\* The category strings _get_context is called with: the schema's and two others.
CategoryValues ==
    MailCategory \cup {"spam", ""}

InitContext ==
    \E d \in Catalogs : InitWith(d, SampleMailbox)

GetContextCall ==
    \E category \in CategoryValues :
        LET r == _get_context(db, category)
        IN  /\ ctx_call' = Some([category |-> category, result |-> r.ret])
            /\ db' = r.db
            /\ UNCHANGED <<mailbox, drafts, draft_msg, pc, cursor, page_count, list_error,
                           messages, idx, content, mail_category, response, outcome,
                           category_of, returned, calls>>

NextContext ==
    GetContextCall

SpecContext ==
    InitContext /\ [][NextContext]_vars

(***************************************************************************)
(* The vocabulary of the properties                                        *)
(***************************************************************************)
\* The ids of the fetched batch.
Batch ==
    Range(messages)

Terminal ==
    {"Skipped", "Drafted", "Failed"}

\* The state of a message in the terms of the pipeline's state machine.  A message
\* whose processing raised is counted as Failed, also when nothing caught the
\* exception.
StatusOf(m) ==
    CASE outcome[m] = "pending" -> "Pending"
      [] outcome[m] = "skipped" -> "Skipped"
      [] outcome[m] = "drafted" -> "Drafted"
      [] OTHER -> "Failed"

\* The script has ended: the loop ran out, or an exception left it.
RunEnded ==
    pc \in {"done", "aborted"}

BackendFailed(m) ==
    outcome[m] \in {"classify_raised", "compose_raised"}

FetchFailed(m) ==
    outcome[m] \in {"fetch_failed", "get_raised"}

DraftFailed(m) ==
    outcome[m] \in {"draft_failed", "draft_raised"}

Supported ==
    {"order_status", "product_return", "stock_inquiry", "product_complaint"}

HasDraft(m) ==
    \E k \in 1..Len(draft_msg) : draft_msg[k] = m

(***************************************************************************)
(* C1  A classifier or composer call that raises while message X is        *)
(* processed fails X only: the run is not cut short, so that at its end X  *)
(* is Failed and every other message of the batch is in a terminal state.  *)
(***************************************************************************)
C1_BackendFailureIsolated ==
    \A m \in Batch :
        (BackendFailed(m) /\ RunEnded) =>
            /\ StatusOf(m) = "Failed"
            /\ \A o \in Batch \ {m} : StatusOf(o) \in Terminal

(***************************************************************************)
(* C2  Whatever the external calls do, at the end of the run every fetched *)
(* message is in one of the terminal states Skipped, Drafted, Failed, and  *)
(* no message was processed twice.                                         *)
(***************************************************************************)
C2_EveryMessageTerminal ==
    /\ \A m \in Batch : calls[m].get <= 1 /\ calls[m].classify <= 1
                        /\ calls[m].compose <= 1 /\ calls[m].draft <= 1
    /\ RunEnded => \A m \in Batch : StatusOf(m) \in Terminal

(***************************************************************************)
(* C3  A message X whose fetch fails (the get call raises, or the Subject  *)
(* or From header is missing) is Failed after the one get call, without a  *)
(* classify, compose or draft call and without a draft; the loop has moved *)
(* past X, every message the loop has passed is terminal, and a run that   *)
(* reaches its end leaves every message terminal.                          *)
(***************************************************************************)
C3_FetchFailureIsolated ==
    \A i \in 1..Len(messages) :
        FetchFailed(messages[i]) =>
            /\ outcome[messages[i]] = "fetch_failed"
            /\ StatusOf(messages[i]) = "Failed"
            /\ calls[messages[i]] = [NoCalls EXCEPT !.get = 1]
            /\ ~HasDraft(messages[i])
            /\ idx > i
            /\ \A j \in 1..Len(messages) : j < idx => StatusOf(messages[j]) \in Terminal
            /\ pc = "done" => \A m \in Batch : StatusOf(m) \in Terminal

\* Scenario 5: of a batch of three, the second message fails to fetch and the
\* other two are drafted.
C3_Witness ==
    /\ pc = "done"
    /\ Len(messages) = 3
    /\ outcome[messages[2]] = "fetch_failed"
    /\ outcome[messages[1]] = "drafted"
    /\ outcome[messages[3]] = "drafted"

(***************************************************************************)
(* C4  A message X whose draft creation fails is Failed and has no draft;  *)
(* no exception left create_draft_email, and the loop has moved on to the  *)
(* messages after X.                                                       *)
(***************************************************************************)
C4_DraftFailureIsolated ==
    \A i \in 1..Len(messages) :
        DraftFailed(messages[i]) =>
            /\ outcome[messages[i]] = "draft_failed"
            /\ StatusOf(messages[i]) = "Failed"
            /\ ~HasDraft(messages[i])
            /\ calls[messages[i]].draft = 1
            /\ idx > i

\* The draft of the first message fails and a later message is drafted.
C4_Witness ==
    /\ pc = "done"
    /\ Len(messages) = 3
    /\ outcome[messages[1]] = "draft_failed"
    /\ outcome[messages[3]] = "drafted"

(***************************************************************************)
(* C5  A message classified as other is Skipped; generate_response is      *)
(* never called for it and no draft is created or attempted for it.        *)
(***************************************************************************)
C5_OtherIsSkipped ==
    \A m \in Batch :
        category_of[m] = Some("other") =>
            /\ outcome[m] = "skipped"
            /\ StatusOf(m) = "Skipped"
            /\ calls[m].compose = 0
            /\ calls[m].draft = 0
            /\ returned[m] = None
            /\ ~HasDraft(m)

C5_Witness ==
    /\ pc = "done"
    /\ \E m \in Batch : category_of[m] = Some("other") /\ calls[m].classify = 1

(***************************************************************************)
(* C6  A message classified as order_status, product_return, stock_inquiry *)
(* or product_complaint is never Skipped: once the loop is done with it, it *)
(* is Drafted or Failed, the composer was called for it, and if the        *)
(* composer returned, one draft creation was attempted.                    *)
(***************************************************************************)
C6_SupportedNeverSkipped ==
    \A i \in 1..Len(messages) :
        (category_of[messages[i]] # None /\ category_of[messages[i]][1] \in Supported) =>
            /\ StatusOf(messages[i]) # "Skipped"
            /\ pc = "draft" /\ idx = i => calls[messages[i]].compose = 1
            /\ (i < idx \/ RunEnded) =>
                /\ StatusOf(messages[i]) \in {"Drafted", "Failed"}
                /\ calls[messages[i]].compose = 1
                /\ returned[messages[i]] # None => calls[messages[i]].draft = 1
                /\ StatusOf(messages[i]) = "Drafted" <=> HasDraft(messages[i])

C6_Witness ==
    /\ pc = "done"
    /\ \E m \in Batch : category_of[m] = Some("product_complaint") /\ outcome[m] = "drafted"
    /\ \E m \in Batch : category_of[m] = Some("product_return") /\ outcome[m] = "draft_failed"

(***************************************************************************)
(* C7  _get_context follows the policy table on every category string and  *)
(* every catalog: the order text of ORD54321 for order_status, the stock   *)
(* text of ADIDAS001 for stock_inquiry, and the default text for every     *)
(* other category and for an absent order or product.  The result is never *)
(* empty, and on the built-in catalog order_status gives the processing /  *)
(* Not yet available text.                                                 *)
(***************************************************************************)
\* The policy table of the context resolver.
PolicyContext(d, category) ==
    LET orders == {e \in Range(d.orders) : e.id = "ORD54321"}
        products == {e \in Range(d.products) : e.id = "ADIDAS001"}
    IN  IF category = "order_status" /\ orders # {}
        THEN LET o == (CHOOSE e \in orders : TRUE).rec
             IN  "Order ORD54321 is " \o o.status \o ". Tracking number: "
                 \o (IF o.tracking_number \in {None, Some("")} THEN "Not yet available"
                     ELSE o.tracking_number[1])
        ELSE IF category = "stock_inquiry" /\ products # {}
        THEN LET q == (CHOOSE e \in products : TRUE).rec
             IN  "Product " \o q.name \o " stock level: " \o ToString(q.stock)
        ELSE "No additional context available"

C7_ContextFollowsPolicy ==
    ctx_call # None =>
        /\ ctx_call[1].result = PolicyContext(db, ctx_call[1].category)
        /\ ctx_call[1].result # ""
        /\ (db = MockDatabase_init /\ ctx_call[1].category = "order_status") =>
            ctx_call[1].result
                = "Order ORD54321 is processing. Tracking number: Not yet available"
        /\ ctx_call[1].category \in {"product_return", "product_complaint", "other"} =>
            ctx_call[1].result = "No additional context available"

C7_Witness ==
    /\ db = MockDatabase_init
    /\ ctx_call = Some([category |-> "order_status",
                        result |-> "Order ORD54321 is processing. Tracking number: Not yet available"])

(***************************************************************************)
(* C8  Every draft of the mail store answers a message of the mailbox: its *)
(* subject is Re: and the message's subject, its body is the text the      *)
(* composer returned for the message, and its recipient is extracted from  *)
(* the message's sender header: the text between the angle brackets when   *)
(* the header is a display name followed by a bracketed address, the       *)
(* header stripped of surrounding whitespace when it has no bracketed      *)
(* part.                                                                   *)
(***************************************************************************)
\* A display name (without opening bracket) followed by an address in angle
\* brackets that ends the header; p is the position of the opening bracket.
NameAddrForm(h, p) ==
    /\ p \in 1..(Len(h) - 2)
    /\ h[p] = "<"
    /\ h[Len(h)] = ">"
    /\ \A i \in 1..(p - 1) : h[i] # "<"
    /\ \A i \in (p + 1)..(Len(h) - 1) : h[i] \notin {"<", ">"}

\* No opening bracket is followed by at least one character and a closing bracket.
NoBracketedPart(h) ==
    ~\E p \in 1..Len(h), g \in 1..Len(h) : h[p] = "<" /\ h[g] = ">" /\ g >= p + 2

C8_DraftFields ==
    /\ Len(draft_msg) = Len(drafts)
    /\ \A k \in 1..Len(drafts) :
        LET message == MessageById(mailbox, draft_msg[k])
            sender == HeaderValue(message.headers, "From")[1]
            subject == HeaderValue(message.headers, "Subject")[1]
        IN  /\ drafts[k].subject = "Re: " \o subject
            /\ returned[draft_msg[k]] = Some(drafts[k].body)
            /\ \A p \in 1..Len(sender) :
                NameAddrForm(sender, p) =>
                    drafts[k].to = SubSeq(sender, p + 1, Len(sender) - 1)
            /\ NoBracketedPart(sender) => drafts[k].to = Strip(sender)
            /\ sender = AnnaHeader => drafts[k].to = AnnaAddress

\* Scenarios 2 and 3: a draft to the address of the display-name header and a draft
\* to the stripped bare address.
C8_Witness ==
    /\ \E k \in 1..Len(drafts) :
        /\ drafts[k].to = AnnaAddress
        /\ drafts[k].subject = "Re: Where is my order?"
        /\ HeaderValue(MessageById(mailbox, draft_msg[k]).headers, "From") = Some(AnnaHeader)
    /\ \E k \in 1..Len(drafts) :
        /\ drafts[k].to = AnnaAddress
        /\ HeaderValue(MessageById(mailbox, draft_msg[k]).headers, "From") = Some(BareHeader)

(***************************************************************************)
(* C9  The lookups leave the database as it is and answer the same when    *)
(* repeated; an unknown id gives None, an unknown email the empty list;    *)
(* and the database is the built-in catalog in every state of a run.       *)
(***************************************************************************)
LookupIds ==
    {"NIKE001", "ADIDAS001", "YOGA001", "ORD54321", "ORD54322", "UNKNOWN", ""}

LookupEmails ==
    {"margaret.brown@email.com", "anna.smith@email.com", "Anna.Smith@email.com", ""}

C9_LookupsAreReadOnly ==
    /\ db = MockDatabase_init
    /\ \A id \in LookupIds :
        /\ check_stock(db, id).db = db
        /\ check_stock(check_stock(db, id).db, id).ret = check_stock(db, id).ret
        /\ get_order_status(db, id).db = db
        /\ get_order_status(get_order_status(db, id).db, id).ret
            = get_order_status(db, id).ret
        /\ id \notin {"NIKE001", "ADIDAS001", "YOGA001"} => check_stock(db, id).ret = None
        /\ id \notin {"ORD54321", "ORD54322"} => get_order_status(db, id).ret = None
    /\ \A email \in LookupEmails :
        /\ search_orders_by_email(db, email).db = db
        /\ search_orders_by_email(search_orders_by_email(db, email).db, email).ret
            = search_orders_by_email(db, email).ret
        /\ email \notin {"margaret.brown@email.com", "anna.smith@email.com"} =>
            search_orders_by_email(db, email).ret = <<>>

\* Both lookups of the generator were made in the run.
C9_Witness ==
    /\ pc = "done"
    /\ \E m \in Batch : category_of[m] = Some("order_status") /\ calls[m].compose = 1
    /\ \E m \in Batch : category_of[m] = Some("stock_inquiry") /\ calls[m].compose = 1

(***************************************************************************)
(* C10  list_messages is all or nothing: after a list request that raised, *)
(* or a later page without messages key, the batch is empty whatever was   *)
(* accumulated, no message is processed, no draft is created and the run   *)
(* ends normally; without such a failure the batch is the ids of all pages *)
(* in page order.                                                          *)
(***************************************************************************)
C10_ListAllOrNothing ==
    /\ list_error =>
        /\ messages = <<>>
        /\ pc \in {"loop", "done"}
        /\ drafts = <<>>
        /\ \A m \in MessageIds : calls[m] = NoCalls /\ outcome[m] = "pending"
    /\ ~list_error => messages = PageIds(mailbox, 0, cursor)

\* Two ids were accumulated from earlier pages when a later page failed.
C10_Witness ==
    /\ list_error
    /\ cursor >= 2
    /\ page_count >= 2
    /\ pc = "done"

====
